---- MODULE Spec2Model ----
(***************************************************************************)
(* Voice chatbot: the Express backend (transcribe / respond / tts          *)
(* handlers, persona registry, mock responder) and the browser client      *)
(* driver (record -> transcribe -> generate -> synthesize-and-play).       *)
(*                                                                         *)
(* The repository holds two builds of the same program:                    *)
(*   "v1"  src/server.js + src/public/client.js   (yoda, sherlock, morgan) *)
(*   "v2"  src/unnamed/part_000 (server, then client; harry, srk, po)      *)
(* The variable build selects which one is running; it never changes.      *)
(*                                                                         *)
(* JavaScript values: a string-valued slot holds a TLA+ string, with       *)
(* Undefined for undefined/null; a text is a sequence of atoms (pieces of  *)
(* the string, the mock keys being whole atoms), "" is <<>> and            *)
(* UndefText stands for undefined/null.                                    *)
(***************************************************************************)
EXTENDS Naturals, Sequences, FiniteSets, Bags

VARIABLES
    build,              \* which build of the sources is running
    apiKey,             \* process.env.OPENAI_API_KEY at startup (server.js:19)
    TEST_MODE,          \* the mock/live flag decided at startup (server.js:19)
    registry,           \* the characters object in memory (server.js:46-73)
    mockResponses,      \* mockResponses.responses in memory (server.js:85-107)
    reqs,               \* the backend's requests, a bag of records (server.js:130-308)
    tempFile,           \* temp_audio.webm beside the server (server.js:152)
    selectedCharacter,  \* client globals (client.js:4-7)
    mediaRecorder,
    audioChunks,
    isRecording,
    status,             \* what updateStatus last showed (client.js:312)
    pendingMic,         \* startRecording calls awaiting getUserMedia (client.js:87)
    recorders,          \* the MediaRecorder objects created so far (client.js:90)
    runs,               \* the processAudio invocations (client.js:143)
    ignored,            \* the button event whose handler returned at its guard,
                        \* the driver not having moved since (client.js:83, 121)
    held,               \* the record button is down: its last event was a
                        \* mousedown/touchstart, not a mouseup/touchend (client.js:42-53)
    conversation        \* the messages in the conversation element (client.js:16, 303)

serverVars == <<reqs, tempFile>>
driverVars == <<selectedCharacter, mediaRecorder, audioChunks, isRecording,
                status, pendingMic, recorders, runs>>
clientVars == <<driverVars, ignored, held, conversation>>
startupVars == <<build, apiKey, TEST_MODE, registry, mockResponses>>
vars == <<build, apiKey, TEST_MODE, registry, mockResponses, reqs, tempFile, selectedCharacter,
          mediaRecorder, audioChunks, isRecording, status, pendingMic,
          recorders, runs, ignored, held, conversation>>

\* ------------------------------------------------------------ bounds
MaxReqs == 2
MaxCycles == 2

\* ------------------------------------------------------------ JS values
Undefined == "<undefined>"
UndefText == <<"<undefined>">>
Builds == {"v1", "v2"}

\* !text for a text slot: undefined, null and "" are falsy
FalsyText(t) == t = UndefText \/ t = <<>>
\* !s for a string slot
FalsyStr(s) == s = Undefined \/ s = ""

\* ------------------------------------------------------------ startup
Placeholder == "your_api_key_here"
ApiKeys == {Undefined, "", Placeholder, "sk-live"}

\* faulty variant: the placeholder credential counts as a live one
ComputeTestModeNoPlaceholder(key) == FalsyStr(key)
ComputeTestMode(key) == FalsyStr(key) \/ key = Placeholder

\* ------------------------------------------------------------ registry
\* faulty variant: the first persona is configured without a voice
charactersVoiceless(b) ==
    IF b = "v1" THEN
        [yoda     |-> [name |-> "Yoda", systemPrompt |-> "You are Yoda from Star Wars...", voice |-> ""],
         sherlock |-> [name |-> "Sherlock Holmes", systemPrompt |-> "You are Sherlock Holmes...", voice |-> "echo"],
         morgan   |-> [name |-> "Morgan Freeman", systemPrompt |-> "You are Morgan Freeman...", voice |-> "onyx"]]
    ELSE
        [harry |-> [name |-> "Harry Potter", systemPrompt |-> "You are Harry Potter from Hogwarts...", voice |-> ""],
         srk   |-> [name |-> "Shah Rukh Khan", systemPrompt |-> "You are Shah Rukh Khan (SRK)...", voice |-> "onyx"],
         po    |-> [name |-> "Kung Fu Panda (Po)", systemPrompt |-> "You are Po, the Dragon Warrior...", voice |-> "fable"]]

characters(b) ==
    IF b = "v1" THEN
        [yoda     |-> [name |-> "Yoda", systemPrompt |-> "You are Yoda from Star Wars...", voice |-> "onyx"],
         sherlock |-> [name |-> "Sherlock Holmes", systemPrompt |-> "You are Sherlock Holmes...", voice |-> "echo"],
         morgan   |-> [name |-> "Morgan Freeman", systemPrompt |-> "You are Morgan Freeman...", voice |-> "onyx"]]
    ELSE
        [harry |-> [name |-> "Harry Potter", systemPrompt |-> "You are Harry Potter from Hogwarts...", voice |-> "echo"],
         srk   |-> [name |-> "Shah Rukh Khan", systemPrompt |-> "You are Shah Rukh Khan (SRK)...", voice |-> "onyx"],
         po    |-> [name |-> "Kung Fu Panda (Po)", systemPrompt |-> "You are Po, the Dragon Warrior...", voice |-> "fable"]]

RegistryKeys(b) == DOMAIN characters(b)

\* Properties every plain object inherits from Object.prototype: obj[key]
\* finds them when key is not an own property.
ObjectPrototypeKeys == {"constructor", "toString", "__proto__"}

\* What the code can read off the inherited value: .name, .systemPrompt, .voice
InheritedValue(key) ==
    [name |-> CASE key = "constructor" -> "Object"
                [] key = "toString" -> "toString"
                [] OTHER -> Undefined,
     systemPrompt |-> Undefined,
     voice |-> Undefined]

NoPersona == [name |-> Undefined, systemPrompt |-> Undefined, voice |-> Undefined]

\* characters[character] is truthy
CharacterTruthy(b, c) == c \in RegistryKeys(b) \/ c \in ObjectPrototypeKeys

\* characters[character]
CharacterGet(b, c) ==
    IF c \in RegistryKeys(b) THEN characters(b)[c]
    ELSE IF c \in ObjectPrototypeKeys THEN InheritedValue(c)
    ELSE NoPersona

\* ------------------------------------------------------------ mock responder
\* mockResponses.transcriptions.default, "How are you?"
MockTranscription == <<"How are you", "?">>

\* String.prototype.toLowerCase, atom by atom
LowerAtom(a) ==
    CASE a = "How are you" -> "how are you"
      [] a = "HELLO" -> "hello"
      [] a = "Hello" -> "hello"
      [] a = "Namaste" -> "namaste"
      [] OTHER -> a

toLowerCase(t) == [i \in 1..Len(t) |-> LowerAtom(t[i])]

RECURSIVE trimStart(_)
trimStart(t) == IF t # <<>> /\ Head(t) = " " THEN trimStart(Tail(t)) ELSE t

RECURSIVE trimEnd(_)
trimEnd(t) ==
    IF t # <<>> /\ t[Len(t)] = " " THEN trimEnd(SubSeq(t, 1, Len(t) - 1)) ELSE t

trim(t) == trimEnd(trimStart(t))

\* String.prototype.includes
includes(t, key) ==
    \E i \in 1..(Len(t) + 1) :
        /\ i + Len(key) - 1 <= Len(t)
        /\ SubSeq(t, i, i + Len(key) - 1) = key

\* mockResponses.responses[character], as Object.entries lists it: the keys
\* in declaration order, "default" being the last own property.
mockTable(b, c) ==
    CASE b = "v1" /\ c = "yoda" ->
          << <<"how are you", "Well, I am, young one...">>,
             <<"hello", "Greet you, I do...">>,
             <<"tell me a story", "Long ago, in a galaxy far away...">>,
             <<"namaste", "Namaste, young padawan (hi)">>,
             <<"default", "Hmm, interesting question this is...">> >>
      [] b = "v1" /\ c = "sherlock" ->
          << <<"how are you", "Elementary! I am in excellent spirits...">>,
             <<"hello", "Good day. I deduce from your tone...">>,
             <<"tell me a story", "Most intriguing! Let me recount...">>,
             <<"namaste", "Namaskar (hi), Sherlock">>,
             <<"default", "Fascinating. The evidence suggests...">> >>
      [] b = "v1" /\ c = "morgan" ->
          << <<"how are you", "And so it was, on this fine day...">>,
             <<"hello", "Hello there. In this moment...">>,
             <<"tell me a story", "Let me tell you about a journey...">>,
             <<"namaste", "Namaste mitra (hi), Morgan">>,
             <<"default", "And in that question, lies the seed...">> >>
      [] b = "v2" /\ c = "harry" ->
          << <<"how are you", "Brilliant! I'm doing great, thanks...">>,
             <<"hello", "Hello there! Harry Potter here...">>,
             <<"tell me a story", "Blimey! Let me tell you about the time...">>,
             <<"namaste", "Namaste (hi), Harry">>,
             <<"default", "That's interesting! Reminds me of...">> >>
      [] b = "v2" /\ c = "srk" ->
          << <<"how are you", "Arre, main toh ekdum mast hoon!...">>,
             <<"hello", "Hello ji! Shah Rukh Khan bol raha hoon...">>,
             <<"tell me a story", "Pyaar dosti hai, mere dost!...">>,
             <<"namaste", "Namaste (hi), SRK">>,
             <<"default", "Kehna kya chahte ho?...">> >>
      [] b = "v2" /\ c = "po" ->
          << <<"how are you", "Awesome! I'm super pumped!...">>,
             <<"hello", "Hey there! Po here, the Dragon Warrior!...">>,
             <<"tell me a story", "Let me tell you about the Secret Ingredient...">>,
             <<"namaste", "Namaste dost (hi), Po">>,
             <<"default", "That's so cool! Makes me hungry...">> >>
      \* an inherited property (a function or Object.prototype) has no own
      \* enumerable entries
      [] OTHER -> << >>

\* characterResponses.default
mockDefault(b, c) ==
    LET tab == mockTable(b, c) IN
    IF tab = << >> THEN UndefText ELSE << tab[Len(tab)][2] >>

\* faulty variant: the last matching entry wins
RECURSIVE lastMatch(_, _, _)
lastMatch(tab, t, dflt) ==
    IF tab = << >> THEN dflt
    ELSE IF includes(t, << tab[Len(tab)][1] >>) THEN << tab[Len(tab)][2] >>
    ELSE lastMatch(SubSeq(tab, 1, Len(tab) - 1), t, dflt)

RECURSIVE firstMatch(_, _, _)
firstMatch(tab, t, dflt) ==
    IF tab = << >> THEN dflt
    ELSE IF includes(t, << tab[1][1] >>) THEN << tab[1][2] >>
    ELSE firstMatch(Tail(tab), t, dflt)

getMockResponse(b, text, character) ==
    LET normalizedText == trim(toLowerCase(text)) IN
    firstMatch(mockTable(b, character), normalizedText, mockDefault(b, character))

\* the silent MP3 of the mock tts branch (its first bytes, "ID3")
silentMp3 == <<73, 68, 51>>

\* ------------------------------------------------------------ backend: data
NoFile == [present |-> FALSE, buffer |-> << >>]
\* req.file as multer's memory storage leaves it: absent, or a file whose
\* buffer may be empty
AudioFiles == {NoFile} \cup {[present |-> TRUE, buffer |-> b] : b \in {<< >>, <<1>>, <<2>>}}

\* req.body.text and req.body.character as the callers send them
Texts == {UndefText, << >>, <<"How are you", "?">>}
PersonaIds(b) == {Undefined, "unknown"} \cup ObjectPrototypeKeys \cup RegistryKeys(b)

NoBody == [error |-> << >>, text |-> UndefText, response |-> UndefText,
           character |-> Undefined, contentType |-> Undefined, bytes |-> << >>]
ErrorBody(prefix, msg) == [NoBody EXCEPT !.error = <<prefix, msg>>, !.contentType = "application/json"]

NoCall == [api |-> "none", system |-> Undefined, user |-> UndefText,
           voice |-> Undefined, input |-> UndefText, language |-> Undefined]

NoReq == [kind |-> "none", file |-> NoFile, text |-> UndefText, character |-> Undefined,
          pc |-> "none", status |-> 0, body |-> NoBody, nresp |-> 0,
          branch |-> "none", ncalls |-> 0, call |-> NoCall,
          wrote |-> FALSE, sent |-> << >>,
          \* how the remote call settled: "none", "ok" or the error's message
          upstream |-> "none",
          \* what the remote call returned when it settled "ok"
          got |-> [text |-> UndefText, bytes |-> << >>],
          \* the message of an exception the handler's own code threw
          thrown |-> "none"]

\* the remote capabilities: what they answer when they answer
UpstreamErrors == {"429 rate limit", "connect ETIMEDOUT"}
ENOENT == "ENOENT: no such file or directory"
Whisper(audio) ==
    CASE audio = <<1>> -> <<"one">>
      [] audio = <<2>> -> <<"two">>
      [] OTHER -> << >>
\* completion.choices[0].message.content, whatever the model wrote
ChatReplies == {<<"generated reply">>, <<" Elementary ", "!">>}
\* the bytes of mp3Response.arrayBuffer()
SpeechOutputs == {<<9, 9>>, <<7>>}

\* res.status(code).json(body) / res.send: one more response on the request
Respond(r, code, body) ==
    [r EXCEPT !.pc = "done", !.status = code, !.body = body, !.nresp = @ + 1]

\* ------------------------------------------------------------ /api/transcribe
\* the language option of the speech-to-text call
SttLanguage(b) == IF b = "v1" THEN "en" ELSE Undefined

\* handler entry up to its first await; tf is the temp file before
TranscribeEntry(b, mode, r, tf) ==
    IF ~r.file.present THEN
        <<Respond(r, 400, ErrorBody("No audio file provided", "")), tf>>
    ELSE IF mode THEN
        <<[r EXCEPT !.pc = "mockDelay", !.branch = "mock"], tf>>
    ELSE
        \* writeFileSync(tempFilePath, buffer); createReadStream; create(...)
        <<[r EXCEPT !.pc = "streamOpen", !.branch = "live", !.wrote = TRUE,
                    !.ncalls = @ + 1,
                    !.call = [NoCall EXCEPT !.api = "stt", !.language = SttLanguage(b)]],
          [exists |-> TRUE, data |-> r.file.buffer]>>

\* faulty variant: the mock branch answers from the audio it was sent
TranscribeMockResumeEcho(r) ==
    Respond(r, 200, [NoBody EXCEPT !.text = Whisper(r.file.buffer), !.contentType = "application/json"])

TranscribeMockResume(r) ==
    Respond(r, 200, [NoBody EXCEPT !.text = MockTranscription, !.contentType = "application/json"])

\* the catch block
TranscribeCatch(r, msg) == Respond(r, 500, ErrorBody("Transcription failed: ", msg))

\* the read stream opens the path it was given: it reads what the file
\* holds now, or fails the call when the file is gone
TranscribeStreamRead(r, tf) ==
    IF tf.exists THEN [r EXCEPT !.pc = "awaitRemote", !.sent = tf.data]
    ELSE TranscribeCatch([r EXCEPT !.upstream = ENOENT], ENOENT)

\* after the await: unlinkSync, then res.json
TranscribeResume(r, tf) ==
    IF tf.exists THEN
        <<Respond([r EXCEPT !.upstream = "ok"], 200,
                  [NoBody EXCEPT !.text = r.got.text, !.contentType = "application/json"]),
          [exists |-> FALSE, data |-> << >>]>>
    ELSE
        <<TranscribeCatch([r EXCEPT !.upstream = "ok", !.thrown = ENOENT], ENOENT), tf>>

\* ------------------------------------------------------------ /api/respond
\* faulty variant: the `if (!text)` check is missing
RespondEntryTextUnchecked(b, mode, r) ==
    IF FalsyStr(r.character) \/ ~CharacterTruthy(b, r.character) THEN
        Respond(r, 400, ErrorBody("Invalid character", ""))
    ELSE IF mode THEN
        [r EXCEPT !.pc = "mockDelay", !.branch = "mock"]
    ELSE
        [r EXCEPT !.pc = "awaitRemote", !.branch = "live", !.ncalls = @ + 1,
                  !.call = [NoCall EXCEPT !.api = "chat",
                                          !.system = CharacterGet(b, r.character).systemPrompt,
                                          !.user = r.text]]

\* faulty variant: the user turn is the normalized text, not the caller's
RespondEntryNormalizedUser(b, mode, r) ==
    IF FalsyText(r.text) THEN
        Respond(r, 400, ErrorBody("No text provided", ""))
    ELSE IF FalsyStr(r.character) \/ ~CharacterTruthy(b, r.character) THEN
        Respond(r, 400, ErrorBody("Invalid character", ""))
    ELSE IF mode THEN
        [r EXCEPT !.pc = "mockDelay", !.branch = "mock"]
    ELSE
        [r EXCEPT !.pc = "awaitRemote", !.branch = "live", !.ncalls = @ + 1,
                  !.call = [NoCall EXCEPT !.api = "chat",
                                          !.system = CharacterGet(b, r.character).systemPrompt,
                                          !.user = trim(toLowerCase(r.text))]]

RespondEntry(b, mode, r) ==
    IF FalsyText(r.text) THEN
        Respond(r, 400, ErrorBody("No text provided", ""))
    ELSE IF FalsyStr(r.character) \/ ~CharacterTruthy(b, r.character) THEN
        Respond(r, 400, ErrorBody("Invalid character", ""))
    ELSE IF mode THEN
        [r EXCEPT !.pc = "mockDelay", !.branch = "mock"]
    ELSE
        [r EXCEPT !.pc = "awaitRemote", !.branch = "live", !.ncalls = @ + 1,
                  !.call = [NoCall EXCEPT !.api = "chat",
                                          !.system = CharacterGet(b, r.character).systemPrompt,
                                          !.user = r.text]]

\* faulty variant: the mock reply depends on a twin request being in flight
RespondMockResumeShared(b, r) ==
    Respond(r, 200, [NoBody EXCEPT !.response = IF CopiesIn(r, reqs) > 1
                                                 THEN mockDefault(b, r.character)
                                                 ELSE getMockResponse(b, r.text, r.character),
                                   !.character = CharacterGet(b, r.character).name,
                                   !.contentType = "application/json"])

RespondMockResume(b, r) ==
    Respond(r, 200, [NoBody EXCEPT !.response = getMockResponse(b, r.text, r.character),
                                   !.character = CharacterGet(b, r.character).name,
                                   !.contentType = "application/json"])

RespondResume(b, r) ==
    Respond([r EXCEPT !.upstream = "ok"], 200,
            [NoBody EXCEPT !.response = r.got.text,
                           !.character = CharacterGet(b, r.character).name,
                           !.contentType = "application/json"])

\* faulty variant: the catch block drops error.message
RespondCatchNoMessage(r, msg) == Respond(r, 500, ErrorBody("Response generation failed: ", ""))
RespondCatch(r, msg) == Respond(r, 500, ErrorBody("Response generation failed: ", msg))

\* ------------------------------------------------------------ /api/tts
\* faulty variant: every persona speaks with the same voice
TtsEntryFixedVoice(b, mode, r) ==
    IF FalsyText(r.text) THEN
        Respond(r, 400, ErrorBody("No text provided", ""))
    ELSE IF FalsyStr(r.character) \/ ~CharacterTruthy(b, r.character) THEN
        Respond(r, 400, ErrorBody("Invalid character", ""))
    ELSE IF mode THEN
        [r EXCEPT !.pc = "mockDelay", !.branch = "mock"]
    ELSE
        [r EXCEPT !.pc = "awaitRemote", !.branch = "live", !.ncalls = @ + 1,
                  !.call = [NoCall EXCEPT !.api = "tts", !.voice = "onyx", !.input = r.text]]

TtsEntry(b, mode, r) ==
    IF FalsyText(r.text) THEN
        Respond(r, 400, ErrorBody("No text provided", ""))
    ELSE IF FalsyStr(r.character) \/ ~CharacterTruthy(b, r.character) THEN
        Respond(r, 400, ErrorBody("Invalid character", ""))
    ELSE IF mode THEN
        [r EXCEPT !.pc = "mockDelay", !.branch = "mock"]
    ELSE
        [r EXCEPT !.pc = "awaitRemote", !.branch = "live", !.ncalls = @ + 1,
                  !.call = [NoCall EXCEPT !.api = "tts",
                                          !.voice = CharacterGet(b, r.character).voice,
                                          !.input = r.text]]

TtsMockResume(r) ==
    Respond(r, 200, [NoBody EXCEPT !.contentType = "audio/mpeg", !.bytes = silentMp3])

TtsResume(r) ==
    Respond([r EXCEPT !.upstream = "ok"], 200,
            [NoBody EXCEPT !.contentType = "audio/mpeg", !.bytes = r.got.bytes])

\* faulty variant: the catch block logs the error and sends nothing
TtsCatchSilent(r, msg) == [r EXCEPT !.pc = "done"]
TtsCatch(r, msg) == Respond(r, 500, ErrorBody("TTS failed: ", msg))

\* ------------------------------------------------------------ backend: steps
\* The requests received so far form a bag: requests are told apart by
\* what they carry and how far their handler has got, not by a name.
Requests == BagToSet(reqs)
Received(r) == reqs (+) SetToBag({r})
Moved(r, r2) == (reqs (-) SetToBag({r})) (+) SetToBag({r2})
Free == BagCardinality(reqs) < MaxReqs

\* POST /api/transcribe arrives: the handler runs to its first await
TranscribeRequest ==
    /\ Free
    /\ \E f \in AudioFiles :
         LET r0 == [NoReq EXCEPT !.kind = "transcribe", !.file = f, !.pc = "entry"]
             out == TranscribeEntry(build, TEST_MODE, r0, tempFile)
         IN /\ reqs' = Received(out[1])
            /\ tempFile' = out[2]
    /\ UNCHANGED <<startupVars, clientVars>>

\* the 1000 ms mock delay elapses
TranscribeMockDone ==
    /\ \E r \in Requests :
         /\ r.kind = "transcribe" /\ r.pc = "mockDelay"
         /\ reqs' = Moved(r, TranscribeMockResume(r))
    /\ UNCHANGED <<tempFile, startupVars, clientVars>>

\* the read stream handed to the SDK opens the temp file
TranscribeStreamOpen ==
    /\ \E r \in Requests :
         /\ r.kind = "transcribe" /\ r.pc = "streamOpen"
         /\ reqs' = Moved(r, TranscribeStreamRead(r, tempFile))
    /\ UNCHANGED <<tempFile, startupVars, clientVars>>

\* the speech-to-text call settles and the handler resumes
TranscribeUpstreamOk ==
    /\ \E r \in Requests :
         /\ r.kind = "transcribe" /\ r.pc = "awaitRemote"
         /\ LET out == TranscribeResume([r EXCEPT !.got.text = Whisper(r.sent)], tempFile)
            IN /\ reqs' = Moved(r, out[1])
               /\ tempFile' = out[2]
    /\ UNCHANGED <<startupVars, clientVars>>

TranscribeUpstreamFail ==
    /\ \E r \in Requests, msg \in UpstreamErrors :
         /\ r.kind = "transcribe" /\ r.pc = "awaitRemote"
         /\ reqs' = Moved(r, TranscribeCatch([r EXCEPT !.upstream = msg], msg))
    /\ UNCHANGED <<tempFile, startupVars, clientVars>>

\* faulty variant: the handler remembers the persona id it was asked for
RespondRequestRegisters ==
    /\ Free
    /\ \E t \in Texts, c \in PersonaIds(build) :
         /\ reqs' = Received(RespondEntry(build, TEST_MODE,
                                          [NoReq EXCEPT !.kind = "respond", !.text = t,
                                                        !.character = c, !.pc = "entry"]))
         /\ registry' = IF c \in {"unknown"}
                         THEN [k \in DOMAIN registry \cup {c} |->
                                  IF k \in DOMAIN registry THEN registry[k] ELSE NoPersona]
                         ELSE registry
    /\ UNCHANGED <<tempFile, build, apiKey, TEST_MODE, mockResponses, clientVars>>

\* POST /api/respond arrives
RespondRequest ==
    /\ Free
    /\ \E t \in Texts, c \in PersonaIds(build) :
         reqs' = Received(RespondEntry(build, TEST_MODE,
                                       [NoReq EXCEPT !.kind = "respond", !.text = t,
                                                     !.character = c, !.pc = "entry"]))
    /\ UNCHANGED <<tempFile, startupVars, clientVars>>

RespondMockDone ==
    /\ \E r \in Requests :
         /\ r.kind = "respond" /\ r.pc = "mockDelay"
         /\ reqs' = Moved(r, RespondMockResume(build, r))
    /\ UNCHANGED <<tempFile, startupVars, clientVars>>

RespondUpstreamOk ==
    /\ \E r \in Requests, reply \in ChatReplies :
         /\ r.kind = "respond" /\ r.pc = "awaitRemote"
         /\ reqs' = Moved(r, RespondResume(build, [r EXCEPT !.got.text = reply]))
    /\ UNCHANGED <<tempFile, startupVars, clientVars>>

RespondUpstreamFail ==
    /\ \E r \in Requests, msg \in UpstreamErrors :
         /\ r.kind = "respond" /\ r.pc = "awaitRemote"
         /\ reqs' = Moved(r, RespondCatch([r EXCEPT !.upstream = msg], msg))
    /\ UNCHANGED <<tempFile, startupVars, clientVars>>

\* POST /api/tts arrives
TtsRequest ==
    /\ Free
    /\ \E t \in Texts, c \in PersonaIds(build) :
         reqs' = Received(TtsEntry(build, TEST_MODE,
                                   [NoReq EXCEPT !.kind = "tts", !.text = t,
                                                 !.character = c, !.pc = "entry"]))
    /\ UNCHANGED <<tempFile, startupVars, clientVars>>

TtsMockDone ==
    /\ \E r \in Requests :
         /\ r.kind = "tts" /\ r.pc = "mockDelay"
         /\ reqs' = Moved(r, TtsMockResume(r))
    /\ UNCHANGED <<tempFile, startupVars, clientVars>>

TtsUpstreamOk ==
    /\ \E r \in Requests, out \in SpeechOutputs :
         /\ r.kind = "tts" /\ r.pc = "awaitRemote"
         /\ reqs' = Moved(r, TtsResume([r EXCEPT !.got.bytes = out]))
    /\ UNCHANGED <<tempFile, startupVars, clientVars>>

TtsUpstreamFail ==
    /\ \E r \in Requests, msg \in UpstreamErrors :
         /\ r.kind = "tts" /\ r.pc = "awaitRemote"
         /\ reqs' = Moved(r, TtsCatch([r EXCEPT !.upstream = msg], msg))
    /\ UNCHANGED <<tempFile, startupVars, clientVars>>

\* ------------------------------------------------------------ client: data
\* characterData of the client: the cards the user can click
ClientCharacters(b) == IF b = "v1" THEN {"yoda", "sherlock", "morgan"} ELSE {"harry", "srk", "po"}

\* characterData[c].name
characterData(b, c) ==
    CASE c = "yoda" -> "Yoda"
      [] c = "sherlock" -> "Sherlock Holmes"
      [] c = "morgan" -> "Morgan Freeman"
      [] c = "harry" -> "Harry Potter"
      [] c = "srk" -> "Shah Rukh Khan"
      [] c = "po" -> "Kung Fu Panda"

\* the message selectCharacter puts into the conversation; `by` is the
\* processAudio invocation that appended a message, 0 for selectCharacter
Greeting(b, c) ==
    IF b = "v1" THEN [by |-> 0, role |-> "ai", text |-> <<"Hello! I am ", characterData(b, c), ". Speak to me!">>]
    ELSE [by |-> 0, role |-> "system", text |-> <<"You're now talking to ", characterData(b, c), "!">>]

Stages == <<"transcribe", "generate", "tts">>

\* what updateStatus shows:
\*   "recording"       Listening / Recording
\*   "processing"      Processing your voice / message
\*   "transcribing"    Transcribing your speech / Converting speech to text
\*   "thinking"        Thinking...
\*   "speaking"        Speaking / Generating voice
\*   "ready"           Ready! Hold the button to speak again
\*   "ready_to_talk"   Ready to talk!
\*   "err_mic"         Could not access microphone / Microphone access denied
\*   "err_transcribe"  Could not transcribe audio
\*   "err_generate"    Could not generate response
\*   "err_generic"     Something went wrong
ErrorStatuses == {"err_mic", "err_transcribe", "err_generate", "err_generic"}

NoStageReq == [text |-> UndefText, character |-> Undefined]

\* one processAudio invocation
NewRun(rec, blob) ==
    [rec |-> rec, pc |-> "transcribe", blob |-> blob,
     sent |-> <<"transcribe">>,     \* the stages dispatched, in order
     results |-> << >>,             \* how each dispatched stage settled
     gen |-> NoStageReq,            \* body of the /api/respond request
     tts |-> NoStageReq,            \* body of the /api/tts request
     label |-> Undefined,           \* the persona addMessage labelled the AI turn with
     turns |-> << >>,               \* the messages addMessage appended for this run
     resp |-> << >>,                \* the bodies of the responses its fetches resolved with
     reset |-> FALSE,               \* resetChat has run while this invocation was in progress
     audio |-> "none",              \* the Audio element: none, starting, playing, ended, error
     final |-> "none"]              \* the status the run left when it returned

\* how a fetch settles: "ok", 200 with a usable payload; "empty", 200 with
\* an empty or missing field; "fail", a non-OK status or a rejected fetch
\* (both end in the same throw inside the API helper)
FetchOutcomes == {"ok", "empty", "fail"}
TranscriptOk == <<"How are you", "?">>
ReplyOk == <<"generated reply">>

Finish(run, st) == [run EXCEPT !.pc = "done", !.final = st]

\* ------------------------------------------------------------ processAudio
\* after `await transcribeAudio(audioBlob)`; sel is selectedCharacter now
\* faulty variant: processAudio goes on to generate whatever came back
AfterTranscribeNoCheck(b, run, outcome, sel) ==
    [run EXCEPT !.results = Append(@, outcome), !.pc = "generate",
                !.sent = Append(@, "generate"),
                !.gen = [text |-> IF outcome = "ok" THEN TranscriptOk ELSE UndefText,
                         character |-> sel]]

\* text is data.text of the response
AfterTranscribeText(b, run, outcome, sel, text) ==
    LET r1 == [run EXCEPT !.results = Append(@, outcome)] IN
    IF outcome # "ok" THEN
        \* v1: transcribeAudio returns null and processAudio reports it;
        \* v2: transcribeAudio or processAudio throws into the catch block
        Finish(r1, IF b = "v1" THEN "err_transcribe" ELSE "err_generic")
    ELSE
        \* addMessage('user', ...); updateStatus(thinking); fetch /api/respond
        [r1 EXCEPT !.pc = "generate", !.sent = Append(@, "generate"),
                   !.turns = Append(@, [role |-> "user", text |-> text]),
                   !.gen = [text |-> text, character |-> sel]]

\* the same for a backend that answers TranscriptOk when it answers
AfterTranscribe(b, run, outcome, sel) == AfterTranscribeText(b, run, outcome, sel, TranscriptOk)

\* after `await generateResponse(...)` / getCharacterResponse
\* text is data.response of the response
AfterGenerateText(b, run, outcome, sel, text) ==
    LET r1 == [run EXCEPT !.results = Append(@, outcome)] IN
    IF outcome # "ok" THEN
        Finish(r1, IF b = "v1" THEN "err_generate" ELSE "err_generic")
    ELSE IF sel = Undefined THEN
        \* addMessage reads characterData[selectedCharacter].name / .emoji:
        \* a TypeError after a reset, caught by processAudio
        Finish(r1, "err_generic")
    ELSE
        \* addMessage('ai', ...); updateStatus(speaking); fetch /api/tts
        [r1 EXCEPT !.pc = "tts", !.sent = Append(@, "tts"), !.label = sel,
                   !.turns = Append(@, [role |-> "ai", text |-> text]),
                   !.tts = [text |-> text, character |-> sel]]

\* the same for a backend that answers ReplyOk when it answers
AfterGenerate(b, run, outcome, sel) == AfterGenerateText(b, run, outcome, sel, ReplyOk)

\* after the fetch of /api/tts inside textToSpeech / speakResponse
AfterTtsFetch(b, run, outcome) ==
    LET r1 == [run EXCEPT !.results = Append(@, outcome)] IN
    IF outcome = "fail" THEN
        \* v1: textToSpeech catches and returns, processAudio goes on to Ready
        \* v2: speakResponse throws into processAudio's catch
        Finish(r1, IF b = "v1" THEN "ready" ELSE "err_generic")
    ELSE
        \* response.blob(); new Audio(url); audio.play()
        [r1 EXCEPT !.pc = "play", !.audio = "starting"]

\* audio.play() resolved: playback has begun
AfterPlayStarted(b, run) ==
    IF b = "v1" THEN
        \* the 'ended' listener is added and textToSpeech returns
        Finish([run EXCEPT !.audio = "playing"], "ready")
    ELSE
        \* await new Promise(resolve => audio.onended = resolve)
        [run EXCEPT !.audio = "playing", !.pc = "ended"]

\* audio.play() rejected
AfterPlayRejected(b, run) ==
    LET r1 == [run EXCEPT !.audio = "error", !.results = [@ EXCEPT ![Len(@)] = "playErr"]] IN
    Finish(r1, IF b = "v1" THEN "ready" ELSE "err_generic")

\* the element's 'error' (or a pause by the browser) during playback:
\* nothing listens for it, 'ended' will not come
AfterPlaybackFailed(b, run) == [run EXCEPT !.audio = "error"]

\* the element's 'ended' event
AfterEnded(b, run) ==
    IF run.pc = "ended" THEN Finish([run EXCEPT !.audio = "ended"], "ready")
    ELSE [run EXCEPT !.audio = "ended"]

\* ------------------------------------------------------------ startup
\* the object literals evaluated when the module loads
InitTables ==
    /\ registry = characters(build)
    /\ mockResponses = [c \in RegistryKeys(build) |-> mockTable(build, c)]

InitStartup ==
    /\ build \in Builds
    /\ apiKey \in ApiKeys
    /\ TEST_MODE = ComputeTestMode(apiKey)
    /\ InitTables

InitServer ==
    /\ reqs = EmptyBag
    /\ tempFile = [exists |-> FALSE, data |-> << >>]

InitClient ==
    /\ selectedCharacter = Undefined
    /\ mediaRecorder = 0
    /\ audioChunks = << >>
    /\ isRecording = FALSE
    /\ status = "initial"
    /\ pendingMic = 0
    /\ recorders = << >>
    /\ runs = << >>
    /\ ignored = "none"
    /\ held = FALSE
    /\ conversation = << >>

Init == InitStartup /\ InitServer /\ InitClient

NextServer ==
    \/ TranscribeRequest
    \/ TranscribeMockDone
    \/ TranscribeStreamOpen
    \/ TranscribeUpstreamOk
    \/ TranscribeUpstreamFail
    \/ RespondRequest
    \/ RespondMockDone
    \/ RespondUpstreamOk
    \/ RespondUpstreamFail
    \/ TtsRequest
    \/ TtsMockDone
    \/ TtsUpstreamOk
    \/ TtsUpstreamFail

\* the backend under arbitrary concurrent requests
SpecServer == Init /\ [][NextServer]_vars

\* setTimeout fires, the read stream opens, and a remote call settles one
\* way or the other (the SDK gives up after its timeout)
FairServer ==
    /\ WF_vars(TranscribeMockDone)
    /\ WF_vars(TranscribeStreamOpen)
    /\ WF_vars(TranscribeUpstreamOk \/ TranscribeUpstreamFail)
    /\ WF_vars(RespondMockDone)
    /\ WF_vars(RespondUpstreamOk \/ RespondUpstreamFail)
    /\ WF_vars(TtsMockDone)
    /\ WF_vars(TtsUpstreamOk \/ TtsUpstreamFail)

SpecServerFair == SpecServer /\ FairServer

\* ------------------------------------------------------------ mock generate
\* what callers say to the mock generate stage: keys in several letter
\* cases, several keys at once, padding, the word "default", no key at all
MockTexts ==
    { <<"How are you", "?">>,
      <<" ", "HELLO", " ">>,
      <<"Hello", " ", "How are you">>,
      <<"namaste", " ", "tell me a story">>,
      <<"tell me a story", " ", "Namaste">>,
      <<"default">>,
      <<"xyz">>,
      <<" ">> }

\* POST /api/respond for a persona of the registry
MockReplyRequest ==
    /\ Free
    /\ \E t \in MockTexts, c \in RegistryKeys(build) :
         reqs' = Received(RespondEntry(build, TEST_MODE,
                                       [NoReq EXCEPT !.kind = "respond", !.text = t,
                                                     !.character = c, !.pc = "entry"]))
    /\ UNCHANGED <<tempFile, startupVars, clientVars>>

InitMock ==
    /\ build \in Builds
    /\ apiKey \in {Undefined, Placeholder}
    /\ TEST_MODE = ComputeTestMode(apiKey)
    /\ InitTables
    /\ InitServer
    /\ InitClient

NextMock ==
    \/ MockReplyRequest
    \/ RespondMockDone

\* the generate stage of a backend started without a live credential
SpecMock == InitMock /\ [][NextMock]_vars

\* ------------------------------------------------------------ backend: properties
MockCredential == apiKey \in {Undefined, "", Placeholder}
TextHandler(r) == r.kind \in {"respond", "tts"}
HasErrorBody(r) == r.body.error # << >>
UpstreamFailed(r) == r.upstream \notin {"none", "ok"}
\* a request that meets its handler's precondition
ValidRequest(r) ==
    \/ r.kind = "transcribe" /\ r.file.present /\ r.file.buffer # << >>
    \/ TextHandler(r) /\ ~FalsyText(r.text) /\ r.character \in RegistryKeys(build)

\* C1 (as claimed): a generate or synthesize request with non-empty text and a
\* persona id that is not a key of the registry is answered 400 with an
\* error body and makes no remote call, in either mode.
C1_UnknownPersonaRejected ==
    \A r \in Requests :
        (TextHandler(r) /\ ~FalsyText(r.text) /\ r.character \notin RegistryKeys(build))
        => /\ r.pc = "done"
           /\ r.status = 400
           /\ HasErrorBody(r)
           /\ r.ncalls = 0

\* C2 (as claimed): of concurrent live transcribe requests that all carry
\* audio, each sends its own audio bytes upstream, and each whose upstream
\* call succeeded is answered 200 with the transcript of its own audio.
C2_TranscribeIsolated ==
    (\A q \in Requests : q.kind = "transcribe" => ValidRequest(q))
    =>
    \A r \in Requests :
        (r.kind = "transcribe" /\ r.branch = "live")
        => /\ (r.pc = "awaitRemote" \/ r.upstream = "ok") => r.sent = r.file.buffer
           /\ r.upstream = "ok"
                => /\ r.status = 200
                   /\ r.body.text = Whisper(r.file.buffer)

\* C5: in live mode a valid request whose remote call failed is answered 500
\* with an error string that carries the upstream message, after exactly one
\* remote call, and with none of the mock outputs in the body.
C5_UpstreamFailureIs500 ==
    \A r \in Requests :
        (ValidRequest(r) /\ ~TEST_MODE /\ UpstreamFailed(r))
        => /\ r.pc = "done"
           /\ r.status = 500
           /\ Len(r.body.error) = 2
           /\ r.body.error[2] = r.upstream
           /\ r.ncalls = 1
           /\ r.nresp = 1
           /\ r.branch = "live"
           /\ r.body.text = UndefText
           /\ r.body.response = UndefText
           /\ r.body.bytes = << >>

C5_Witness ==
    /\ ~TEST_MODE
    /\ \E r, q \in Requests :
        /\ r.kind = "transcribe" /\ ValidRequest(r)
        /\ r.upstream \in UpstreamErrors /\ r.status = 500
        /\ q.kind = "respond" /\ ValidRequest(q)
        /\ q.upstream \in UpstreamErrors /\ q.status = 500

\* C6: a generate or synthesize request whose text is absent or "" is
\* answered 400 with an error body and makes no remote call, whatever the
\* persona id and the mode.
C6_EmptyTextRejected ==
    \A r \in Requests :
        (TextHandler(r) /\ FalsyText(r.text))
        => /\ r.pc = "done"
           /\ r.status = 400
           /\ HasErrorBody(r)
           /\ r.ncalls = 0
           /\ r.branch = "none"

C6_Witness ==
    \E r, q \in Requests :
        /\ r.kind = "respond" /\ r.text = << >>
        /\ r.character \in RegistryKeys(build) /\ r.status = 400
        /\ q.kind = "tts" /\ q.text = UndefText
        /\ q.character \in ObjectPrototypeKeys /\ q.status = 400
        /\ ~TEST_MODE

\* C7 (as claimed): a transcribe request whose audio is absent or empty is
\* answered 400 with an error body, makes no remote call and writes no
\* temporary file, in either mode.
C7_EmptyAudioRejected ==
    \A r \in Requests :
        (r.kind = "transcribe" /\ (~r.file.present \/ r.file.buffer = << >>))
        => /\ r.pc = "done"
           /\ r.status = 400
           /\ HasErrorBody(r)
           /\ r.ncalls = 0
           /\ ~r.wrote

\* C8: the mode is the startup credential's: with no credential, an empty one
\* or the placeholder no request ever makes a remote call and every request
\* past validation is on the mock branch; otherwise every valid request is
\* on the live branch; and no two requests are on different branches.
C8_ModeUniform ==
    /\ TEST_MODE = MockCredential
    /\ \A r \in Requests :
        /\ MockCredential => (r.ncalls = 0 /\ r.branch # "live")
        /\ ValidRequest(r) => r.branch = (IF MockCredential THEN "mock" ELSE "live")
        /\ (r.branch = "live") => r.ncalls = 1
    /\ \A r, q \in Requests :
        (r.branch # "none" /\ q.branch # "none") => r.branch = q.branch

C8_Witness ==
    /\ apiKey = Placeholder
    /\ \E r, q \in Requests :
        /\ r.kind = "transcribe" /\ r.status = 200 /\ r.branch = "mock"
        /\ q.kind = "tts" /\ q.status = 200 /\ q.branch = "mock"

\* an error occurred while the request was handled: a failed validation, a
\* failed remote call, or an exception of the handler's own code
ErrorOccurred(r) ==
    \/ r.kind = "transcribe" /\ ~r.file.present
    \/ TextHandler(r) /\ (FalsyText(r.text) \/ FalsyStr(r.character)
                            \/ ~CharacterTruthy(build, r.character))
    \/ UpstreamFailed(r)
    \/ r.thrown # "none"
HasPayload(r) ==
    r.body.text # UndefText \/ r.body.response # UndefText \/ r.body.bytes # << >>
AnsweredCount ==
    BagCardinality([r \in {q \in Requests : q.nresp >= 1} |-> reqs[r]])

C14_OneResponse ==
    \A r \in Requests :
        /\ r.nresp <= 1
        /\ (r.pc = "done") <=> (r.nresp = 1)
        /\ ErrorOccurred(r)
             => /\ r.nresp = 1
                /\ r.status \in {400, 500}
                /\ HasErrorBody(r)
                /\ ~HasPayload(r)
        /\ (r.nresp = 1 /\ ~ErrorOccurred(r))
             => (r.status = 200 /\ ~HasErrorBody(r))
C14_Answered ==
    \A n \in 1..MaxReqs : (BagCardinality(reqs) >= n) ~> (AnsweredCount >= n)

\* C14: every request a handler accepted is answered exactly once on every
\* path: never twice, answered as soon as an error occurs and then with
\* status 400 or 500 and an error string, and (timers firing and remote
\* calls settling) never left unanswered.
C14_ExactlyOneResponse == []C14_OneResponse /\ C14_Answered

C14_Witness ==
    \E r, q \in Requests :
        /\ r.kind = "transcribe" /\ r.thrown = ENOENT /\ r.status = 500 /\ r.nresp = 1
        /\ q.kind = "transcribe" /\ q.status = 200 /\ q.nresp = 1

LoneTranscribe(r) ==
    /\ CopiesIn(r, reqs) = 1
    /\ \A q \in Requests : q.kind = "transcribe" => q = r

\* C15 (as claimed): a live transcribe request makes one speech-to-text call
\* that carries no language option and, handled alone, the uploaded bytes;
\* when the call succeeds the answer is 200 with the upstream text unchanged.
C15_LiveTranscribeVerbatim ==
    \A r \in Requests :
        (r.kind = "transcribe" /\ r.branch = "live")
        => /\ r.ncalls = 1
           /\ r.call.api = "stt"
           /\ r.call.language = Undefined
           /\ (LoneTranscribe(r) /\ r.pc = "awaitRemote") => r.sent = r.file.buffer
           /\ (LoneTranscribe(r) /\ r.upstream = "ok")
                => /\ r.status = 200
                   /\ r.body.text = r.got.text
                   /\ r.got.text = Whisper(r.file.buffer)

\* the reply the mock responder is meant to give: the reply of the first
\* key, in the table's declared order, found in the lowercased, trimmed text
MockKeys(b, c) == SubSeq(mockTable(b, c), 1, Len(mockTable(b, c)) - 1)
MockHits(b, text, c) ==
    {i \in 1..Len(MockKeys(b, c)) :
        includes(trim(toLowerCase(text)), << MockKeys(b, c)[i][1] >>)}
ExpectedMockReply(b, text, c) ==
    LET tab == mockTable(b, c)
        hits == MockHits(b, text, c)
    IN IF hits = {} THEN << tab[Len(tab)][2] >>
       ELSE << tab[CHOOSE i \in hits : \A j \in hits : i <= j][2] >>
SaysHowAreYou(text) == \E i \in 1..Len(text) : LowerAtom(text[i]) = "how are you"

\* C16: a generate request with non-empty text and a registry persona that
\* meets no upstream failure is answered 200 with that persona's display
\* name; the reply is the mock reply for (text, persona) with no remote call
\* in mock mode, and in live mode what the one remote call returned, that
\* call having the persona's prompt as system instruction and the caller's
\* text, unchanged, as its only user turn.
C16_GenerateReply ==
    \A r \in Requests :
        (r.kind = "respond" /\ ValidRequest(r))
        => /\ (r.pc = "done" /\ ~UpstreamFailed(r)) => r.status = 200
           /\ r.branch = "live"
                => /\ r.ncalls = 1
                   /\ r.call.api = "chat"
                   /\ r.call.system = characters(build)[r.character].systemPrompt
                   /\ r.call.user = r.text
           /\ r.status = 200
                => /\ r.body.character = characters(build)[r.character].name
                   /\ r.branch = "mock"
                        => /\ r.ncalls = 0
                           /\ r.body.response = ExpectedMockReply(build, r.text, r.character)
                   /\ r.branch = "live" => r.body.response = r.got.text

C16_Witness ==
    \E r, q \in Requests :
        /\ r.kind = "respond" /\ q.kind = "respond"
        /\ r.branch = "live" /\ r.status = 200 /\ q.status = 200
        /\ r.character # q.character
        /\ r.body.character # q.body.character
        /\ r.body.response = <<" Elementary ", "!">>
        /\ q.body.response = <<"generated reply">>

\* C17: a synthesize request with non-empty text and a registry persona that
\* meets no upstream failure is answered 200 with Content-Type audio/mpeg;
\* in live mode the body is the bytes the one remote call returned, that
\* call having the persona's voice and the caller's text unchanged; in mock
\* mode the body is the one silent payload and no remote call is made.
C17_SynthesizeAudio ==
    \A r \in Requests :
        (r.kind = "tts" /\ ValidRequest(r))
        => /\ (r.pc = "done" /\ ~UpstreamFailed(r)) => r.status = 200
           /\ r.branch = "live"
                => /\ r.ncalls = 1
                   /\ r.call.api = "tts"
                   /\ r.call.voice = characters(build)[r.character].voice
                   /\ r.call.input = r.text
           /\ r.status = 200
                => /\ r.body.contentType = "audio/mpeg"
                   /\ r.branch = "mock" => (r.ncalls = 0 /\ r.body.bytes = silentMp3)
                   /\ r.branch = "live" => r.body.bytes = r.got.bytes

C17_Witness ==
    \E r, q \in Requests :
        /\ r.kind = "tts" /\ q.kind = "tts"
        /\ r.branch = "live" /\ r.status = 200 /\ q.status = 200
        /\ r.call.voice # q.call.voice
        /\ r.body.bytes = <<7>> /\ q.body.bytes = <<9, 9>>

\* C18: for every registry persona and every text, the mock generate stage
\* replies with the reply of the first key, in declared order, found in the
\* lowercased, trimmed text, and with the persona's default reply when no
\* key is found; a text saying "how are you" in any letter case gets the
\* "how are you" reply whatever other keys it holds.
C18_FirstKeyWins ==
    \A r \in Requests :
        (r.kind = "respond" /\ r.branch = "mock" /\ r.pc = "done"
         /\ r.character \in RegistryKeys(build))
        => /\ r.status = 200
           /\ r.body.response = ExpectedMockReply(build, r.text, r.character)
           /\ r.body.response = getMockResponse(build, r.text, r.character)
           /\ SaysHowAreYou(r.text)
                => r.body.response = << mockTable(build, r.character)[1][2] >>

C18_Witness ==
    \E r, q \in Requests :
        /\ r.text = <<"Hello", " ", "How are you">> /\ r.pc = "done"
        /\ r.body.response = << mockTable(build, r.character)[1][2] >>
        /\ q.text = <<" ">> /\ q.pc = "done"
        /\ q.body.response = mockDefault(build, q.character)

C20_MockTranscriptFixed ==
    TEST_MODE =>
        \A r \in Requests :
            (r.kind = "transcribe" /\ r.file.present)
            => /\ r.ncalls = 0 /\ ~r.wrote /\ r.sent = << >>
               /\ r.pc = "done" => (r.status = 200 /\ r.body.text = MockTranscription)

C20_Witness ==
    /\ TEST_MODE
    /\ \E r, q \in Requests :
        /\ r.kind = "transcribe" /\ r.file.buffer = <<1>> /\ r.status = 200
        /\ q.kind = "transcribe" /\ q.file.buffer = <<2>> /\ q.status = 200
        /\ r.body = q.body

\* C25: no handler execution, on any path and for any body, changes the
\* registry (its ids, names, prompts, voices), the mock reply tables or the
\* mode flag: they stay what startup made them.
C25_TablesReadOnly ==
    /\ registry = characters(build)
    /\ DOMAIN registry = RegistryKeys(build)
    /\ mockResponses = [c \in RegistryKeys(build) |-> mockTable(build, c)]
    /\ TEST_MODE = ComputeTestMode(apiKey)

C25_Witness ==
    /\ C25_TablesReadOnly
    /\ \E r, q \in Requests :
        /\ r.kind = "respond" /\ r.character = "unknown" /\ r.pc = "done"
        /\ q.kind = "tts" /\ q.character = "__proto__" /\ ~FalsyText(q.text) /\ q.pc = "done"

NonEmptyStr(x) == x # Undefined /\ x # ""
\* a request for persona c with a usable text
Probe(kind, c) ==
    [NoReq EXCEPT !.kind = kind, !.text = <<"How are you", "?">>, !.character = c, !.pc = "entry"]

\* C26: every id configured in the registry passes the handlers' validation
\* and yields a persona with a non-empty name, prompt and voice, and a mock
\* reply table with a non-empty default reply exists for it.
C26_RegistryComplete ==
    /\ \A c \in RegistryKeys(build) :
        /\ ~FalsyStr(c) /\ CharacterTruthy(build, c)
        /\ NonEmptyStr(CharacterGet(build, c).name)
        /\ NonEmptyStr(CharacterGet(build, c).systemPrompt)
        /\ NonEmptyStr(CharacterGet(build, c).voice)
        /\ mockTable(build, c) # << >>
        /\ mockDefault(build, c) \notin {UndefText, << >>, <<"">>}
        /\ RespondEntry(build, TEST_MODE, Probe("respond", c)).status # 400
        /\ TtsEntry(build, TEST_MODE, Probe("tts", c)).status # 400
    /\ \A r \in Requests :
        (TextHandler(r) /\ ValidRequest(r))
        => /\ r.status # 400
           /\ r.branch = "live" => (NonEmptyStr(r.call.system) \/ NonEmptyStr(r.call.voice))

C26_Witness ==
    \E r, q \in Requests :
        /\ r.kind = "respond" /\ q.kind = "tts"
        /\ ValidRequest(r) /\ ValidRequest(q)
        /\ r.status = 200 /\ q.status = 200
        /\ r.character # q.character

\* C29 (as claimed): once a live transcribe request has been answered, with
\* 200 or with 500, and no transcribe request is in progress, the temporary
\* audio file is gone.
C29_TempFileRemoved ==
    (/\ \E r \in Requests : r.kind = "transcribe" /\ r.branch = "live" /\ r.pc = "done"
     /\ \A r \in Requests : r.kind = "transcribe" => r.pc = "done")
    => ~tempFile.exists

\* ------------------------------------------------------------ client: steps
\* the chat interface (record and reset buttons) is displayed exactly while
\* a character is selected; the selection cards exactly while none is
ChatVisible == selectedCharacter # Undefined

\* click on a character card
SelectCharacter ==
    /\ ~ChatVisible
    /\ \E c \in ClientCharacters(build) :
         /\ selectedCharacter' = c
         /\ conversation' = Append(conversation, Greeting(build, c))
    /\ status' = (IF build = "v1" THEN "ready_to_talk" ELSE status)
    /\ ignored' = "none"
    /\ UNCHANGED <<mediaRecorder, audioChunks, isRecording, pendingMic, recorders, runs,
                   held, startupVars, serverVars>>

\* resetChat / the reset button's click handler
ResetChat ==
    /\ ChatVisible
    /\ selectedCharacter' = Undefined
    /\ conversation' = << >>
    /\ runs' = [k \in DOMAIN runs |-> IF runs[k].pc = "done" THEN runs[k]
                                      ELSE [runs[k] EXCEPT !.reset = TRUE]]
    /\ status' = (IF build = "v2" THEN "ready_to_talk" ELSE status)
    /\ ignored' = "none"
    /\ UNCHANGED <<mediaRecorder, audioChunks, isRecording, pendingMic, recorders,
                   held, startupVars, serverVars>>

\* faulty variant: startRecording has no guard
StartGuardNone(rec) == FALSE
\* `if (isRecording) return;` of startRecording
StartGuard(rec) == rec

\* mousedown / touchstart: startRecording up to `await getUserMedia`
Press ==
    /\ ChatVisible
    /\ IF StartGuard(isRecording) THEN
           /\ UNCHANGED pendingMic
           /\ ignored' = "press"
       ELSE
           /\ pendingMic + Len(recorders) < MaxCycles
           /\ pendingMic' = pendingMic + 1
           /\ ignored' = "none"
    /\ held' = TRUE
    /\ UNCHANGED <<selectedCharacter, mediaRecorder, audioChunks, isRecording, status,
                   recorders, runs, conversation, startupVars, serverVars>>

\* getUserMedia resolves: the rest of startRecording's try block
MicGranted ==
    /\ pendingMic > 0
    /\ pendingMic' = pendingMic - 1
    /\ recorders' = Append(recorders, [state |-> "recording", tracks |-> "live"])
    /\ mediaRecorder' = Len(recorders) + 1
    /\ audioChunks' = << >>
    /\ isRecording' = TRUE
    /\ status' = "recording"
    /\ ignored' = "none"
    /\ UNCHANGED <<selectedCharacter, runs, held, conversation, startupVars, serverVars>>

\* getUserMedia rejects: startRecording's catch block
MicDenied ==
    /\ pendingMic > 0
    /\ pendingMic' = pendingMic - 1
    /\ status' = "err_mic"
    /\ ignored' = "none"
    /\ UNCHANGED <<selectedCharacter, mediaRecorder, audioChunks, isRecording,
                   recorders, runs, held, conversation, startupVars, serverVars>>

\* mouseup / touchend: stopRecording
Release ==
    /\ ChatVisible
    /\ IF ~isRecording \/ mediaRecorder = 0 THEN
           /\ UNCHANGED <<isRecording, recorders, status>>
           /\ ignored' = "release"
       ELSE
           /\ ignored' = "none"
           /\ isRecording' = FALSE
           /\ recorders' = [recorders EXCEPT ![mediaRecorder] =
                               [state |-> "stopping",
                                \* v1 stops the stream's tracks here
                                tracks |-> IF build = "v1" THEN "stopped" ELSE @.tracks]]
           /\ status' = "processing"
    /\ held' = FALSE
    /\ UNCHANGED <<selectedCharacter, mediaRecorder, audioChunks, pendingMic, runs,
                   conversation, startupVars, serverVars>>

\* the events MediaRecorder.stop() queued: 'dataavailable' with the recording,
\* then 'stop', whose listener starts processAudio on the chunks held now
RecorderStoppedDriver(r) ==
    /\ r \in 1..Len(recorders)
    /\ recorders[r].state = "stopping"
    /\ LET chunks == Append(audioChunks, r) IN
         /\ audioChunks' = chunks
         /\ runs' = Append(runs, NewRun(r, chunks))
    /\ recorders' = [recorders EXCEPT ![r].state = "inactive"]
    /\ status' = "transcribing"
    /\ ignored' = "none"
    /\ UNCHANGED <<selectedCharacter, mediaRecorder, isRecording, pendingMic, held, conversation>>

\* the same against a backend of which nothing is modelled
RecorderStopped(r) == RecorderStoppedDriver(r) /\ UNCHANGED <<startupVars, serverVars>>

\* what a step of processAudio leaves on screen
StatusAfter(run, old) ==
    CASE run.pc = "done" -> run.final
      [] run.pc = "generate" -> "thinking"
      [] run.pc = "tts" -> "speaking"
      [] OTHER -> old

\* the messages addMessage appended during a step of invocation k
Appended(k, old, new) ==
    [i \in 1..(Len(new.turns) - Len(old.turns)) |->
        [by |-> k, role |-> new.turns[Len(old.turns) + i].role,
         text |-> new.turns[Len(old.turns) + i].text]]

\* a processAudio invocation moves on; in v2 the 'stop' handler releases the
\* stream's tracks once processAudio has returned
StepRunDriver(k, run) ==
    /\ runs' = [runs EXCEPT ![k] = run]
    /\ status' = (IF runs[k].pc # "done" /\ (run.sent # runs[k].sent \/ run.pc = "done")
                  THEN StatusAfter(run, status) ELSE status)
    /\ recorders' = (IF build = "v2" /\ run.pc = "done"
                     THEN [recorders EXCEPT ![run.rec].tracks = "stopped"]
                     ELSE recorders)
    /\ conversation' = conversation \o Appended(k, runs[k], run)
    /\ ignored' = "none"
    /\ UNCHANGED <<selectedCharacter, mediaRecorder, audioChunks, isRecording,
                   pendingMic, held>>

StepRun(k, run) == StepRunDriver(k, run) /\ UNCHANGED <<startupVars, serverVars>>

TranscribeSettled(k) ==
    /\ k \in 1..Len(runs) /\ runs[k].pc = "transcribe"
    /\ \E o \in FetchOutcomes :
         StepRun(k, AfterTranscribe(build, runs[k], o, selectedCharacter))

GenerateSettled(k) ==
    /\ k \in 1..Len(runs) /\ runs[k].pc = "generate"
    /\ \E o \in FetchOutcomes :
         StepRun(k, AfterGenerate(build, runs[k], o, selectedCharacter))

TtsSettled(k) ==
    /\ k \in 1..Len(runs) /\ runs[k].pc = "tts"
    /\ \E o \in FetchOutcomes \ {"empty"} :
         StepRun(k, AfterTtsFetch(build, runs[k], o))

PlayStarted(k) ==
    /\ k \in 1..Len(runs) /\ runs[k].pc = "play"
    /\ StepRun(k, AfterPlayStarted(build, runs[k]))

PlayRejected(k) ==
    /\ k \in 1..Len(runs) /\ runs[k].pc = "play"
    /\ StepRun(k, AfterPlayRejected(build, runs[k]))

PlaybackEnded(k) ==
    /\ k \in 1..Len(runs) /\ runs[k].audio = "playing"
    /\ StepRun(k, AfterEnded(build, runs[k]))

PlaybackFailed(k) ==
    /\ k \in 1..Len(runs) /\ runs[k].audio = "playing"
    /\ StepRun(k, AfterPlaybackFailed(build, runs[k]))

NextClient ==
    \/ SelectCharacter
    \/ ResetChat
    \/ Press
    \/ MicGranted
    \/ MicDenied
    \/ Release
    \/ \E r \in 1..MaxCycles : RecorderStopped(r)
    \/ \E k \in 1..MaxCycles :
        \/ TranscribeSettled(k)
        \/ GenerateSettled(k)
        \/ TtsSettled(k)
        \/ PlayStarted(k)
        \/ PlayRejected(k)
        \/ PlaybackEnded(k)
        \/ PlaybackFailed(k)

\* the client driver against a backend that may answer anything; the
\* backend's own state plays no part
InitClientOnly ==
    /\ build \in Builds
    /\ apiKey = Undefined
    /\ TEST_MODE = ComputeTestMode(apiKey)
    /\ InitTables
    /\ InitServer
    /\ InitClient

SpecClient == InitClientOnly /\ [][NextClient]_vars

\* ------------------------------------------------------------ client and backend
\* the requests the client's fetches carry
TranscribeFetch(run) ==
    \* formData.append('audio', audioBlob, 'recording.webm')
    [NoReq EXCEPT !.kind = "transcribe", !.pc = "entry",
                  !.file = [present |-> TRUE, buffer |-> run.blob]]
RespondFetch(run) ==
    [NoReq EXCEPT !.kind = "respond", !.pc = "entry",
                  !.text = run.gen.text, !.character = run.gen.character]
TtsFetch(run) ==
    [NoReq EXCEPT !.kind = "tts", !.pc = "entry",
                  !.text = run.tts.text, !.character = run.tts.character]

\* r is the request q after its handler has answered
Answers(r, q) ==
    /\ r.pc = "done"
    /\ r.kind = q.kind /\ r.file = q.file /\ r.text = q.text /\ r.character = q.character

\* how the client's API helpers read a response: `if (!response.ok) throw`,
\* then data.text / data.response, which processAudio tests for falsiness
FetchOutcome(r) ==
    IF r.status # 200 THEN "fail"
    ELSE IF r.kind = "transcribe" /\ FalsyText(r.body.text) THEN "empty"
    ELSE IF r.kind = "respond" /\ FalsyText(r.body.response) THEN "empty"
    ELSE "ok"

\* the recorder's 'stop': processAudio starts and its first fetch reaches
\* the transcribe handler
RecorderStoppedFetch(r) ==
    /\ RecorderStoppedDriver(r)
    /\ LET out == TranscribeEntry(build, TEST_MODE,
                                  TranscribeFetch(NewRun(r, Append(audioChunks, r))), tempFile)
       IN /\ reqs' = Received(out[1])
          /\ tempFile' = out[2]
    /\ UNCHANGED startupVars

\* the transcribe response arrives; on success the generate request is sent
TranscribeReturned(k) ==
    /\ k \in 1..Len(runs) /\ runs[k].pc = "transcribe"
    /\ \E r \in Requests :
         /\ Answers(r, TranscribeFetch(runs[k]))
         /\ LET run == AfterTranscribeText(build, [runs[k] EXCEPT !.resp = Append(@, r.body)],
                                           FetchOutcome(r), selectedCharacter, r.body.text)
            IN /\ StepRunDriver(k, run)
               /\ reqs' = IF run.pc = "generate"
                          THEN Moved(r, RespondEntry(build, TEST_MODE, RespondFetch(run)))
                          ELSE reqs (-) SetToBag({r})
    /\ UNCHANGED <<tempFile, startupVars>>

\* the generate response arrives; on success the synthesize request is sent
GenerateReturned(k) ==
    /\ k \in 1..Len(runs) /\ runs[k].pc = "generate"
    /\ \E r \in Requests :
         /\ Answers(r, RespondFetch(runs[k]))
         /\ LET run == AfterGenerateText(build, [runs[k] EXCEPT !.resp = Append(@, r.body)],
                                         FetchOutcome(r), selectedCharacter, r.body.response)
            IN /\ StepRunDriver(k, run)
               /\ reqs' = IF run.pc = "tts"
                          THEN Moved(r, TtsEntry(build, TEST_MODE, TtsFetch(run)))
                          ELSE reqs (-) SetToBag({r})
    /\ UNCHANGED <<tempFile, startupVars>>

\* the synthesize response arrives
TtsReturned(k) ==
    /\ k \in 1..Len(runs) /\ runs[k].pc = "tts"
    /\ \E r \in Requests :
         /\ Answers(r, TtsFetch(runs[k]))
         /\ StepRunDriver(k, AfterTtsFetch(build, [runs[k] EXCEPT !.resp = Append(@, r.body)],
                                           FetchOutcome(r)))
         /\ reqs' = reqs (-) SetToBag({r})
    /\ UNCHANGED <<tempFile, startupVars>>

NextApp ==
    \/ SelectCharacter
    \/ ResetChat
    \/ Press
    \/ MicGranted
    \/ MicDenied
    \/ Release
    \/ TranscribeMockDone
    \/ RespondMockDone
    \/ TtsMockDone
    \/ \E r \in 1..MaxCycles : RecorderStoppedFetch(r)
    \/ \E k \in 1..MaxCycles :
        \/ TranscribeReturned(k)
        \/ GenerateReturned(k)
        \/ TtsReturned(k)
        \/ PlayStarted(k)
        \/ PlayRejected(k)
        \/ PlaybackEnded(k)
        \/ PlaybackFailed(k)

\* the page talking to a backend started without a live credential
SpecApp == InitMock /\ [][NextApp]_vars

\* ------------------------------------------------------------ client: properties
RunIds == 1..Len(runs)
RunActive(k) == runs[k].pc # "done"
\* cycle c (the c-th recording) is in flight: still recording or stopping,
\* or its processAudio run has not returned
InFlight(c) ==
    \/ recorders[c].state \in {"recording", "stopping"}
    \/ \E k \in RunIds : runs[k].rec = c /\ RunActive(k)
\* a stage of the run failed: a non-OK or rejected fetch, or a playback error
StageFailed(run) == \E j \in 1..Len(run.results) : run.results[j] \in {"fail", "playErr"}

\* C3 (as claimed): at most one recording/processing cycle is in flight at
\* any time.
C3_OneCycleInFlight ==
    Cardinality({c \in 1..Len(recorders) : InFlight(c)}) <= 1

\* C4 (as claimed): when a stage of a cycle fails, the cycle ends there: no
\* later stage is dispatched and the status it leaves is an error status.
C4_FailureIsFatal ==
    \A k \in RunIds :
        StageFailed(runs[k])
        => /\ runs[k].pc = "done"
           /\ Len(runs[k].sent) = Len(runs[k].results)
           /\ runs[k].final \in ErrorStatuses

\* C9: within a cycle the stages are dispatched in the order transcribe,
\* generate, synthesize, each at most once, and each only after the stage
\* before it has answered successfully.
C9_StageOrder ==
    \A k \in RunIds :
        LET r == runs[k] IN
        /\ Len(r.sent) \in 1..Len(Stages)
        /\ r.sent = SubSeq(Stages, 1, Len(r.sent))
        /\ Len(r.results) \in {Len(r.sent) - 1, Len(r.sent)}
        /\ \A j \in 1..(Len(r.sent) - 1) : r.results[j] = "ok"
        /\ (r.pc \in {"transcribe", "generate", "tts"})
              => (Len(r.results) = Len(r.sent) - 1 /\ r.sent[Len(r.sent)] = r.pc)

C9_Witness ==
    \E k, l \in RunIds :
        /\ runs[k].sent = Stages /\ runs[k].final = "ready"
        /\ runs[k].results = <<"ok", "ok", "ok">>
        /\ runs[l].sent = <<"transcribe", "generate">> /\ runs[l].pc = "done"
        /\ runs[l].results = <<"ok", "fail">>

\* C10 (as claimed): a cycle shows Ready only once the playback of its
\* synthesized audio has ended, never while that audio is starting or playing.
C10_ReadyAfterPlayback ==
    \A k \in RunIds :
        runs[k].final = "ready" => runs[k].audio \notin {"starting", "playing"}

\* C11 (as claimed): once a recording has been released its stream's tracks
\* are stopped: the microphone is not held while the recorder finalizes or
\* while the cycle's stages are pending.
C11_DeviceReleasedOnRelease ==
    \A c \in 1..Len(recorders) :
        recorders[c].state # "recording" => recorders[c].tracks = "stopped"

\* C12: a press handled while isRecording is set, and a release handled
\* while it is not, leave every variable of the driver as it was: no
\* microphone request, no recorder created or stopped, audioChunks, the
\* processing runs and the status untouched.
C12_IgnoredEventsChangeNothing ==
    [][/\ (Press /\ isRecording) => UNCHANGED driverVars
       /\ (Release /\ ~isRecording) => UNCHANGED driverVars]_vars

C12_Witness ==
    /\ ignored = "press"
    /\ isRecording
    /\ Len(recorders) = 2
    /\ \E k \in RunIds : RunActive(k)

\* C13 (as claimed): when getUserMedia rejects, the driver is idle
\* afterwards: isRecording is false (so a press starts a recording), the
\* error status is shown, and no recorder or processing run was started.
C13_MicFailureReturnsToIdle ==
    [][MicDenied => /\ ~isRecording'
                    /\ status' = "err_mic"
                    /\ UNCHANGED <<recorders, runs, mediaRecorder, audioChunks>>]_vars

\* the requests a run has dispatched to generate and to synthesize
Dispatched(run) ==
    (IF Len(run.sent) >= 2 THEN {run.gen} ELSE {}) \cup
    (IF Len(run.sent) >= 3 THEN {run.tts} ELSE {})

\* C22 (as claimed): every generate and synthesize request the driver
\* dispatches carries non-empty text and a persona id that is a key of the
\* registry, whatever select, reset, press, release and response events
\* came before.
C22_DispatchedRequestsValid ==
    \A k \in RunIds : \A q \in Dispatched(runs[k]) :
        /\ ~FalsyText(q.text)
        /\ q.character # Undefined
        /\ q.character \in RegistryKeys(build)

\* C23 (as claimed): the payload a cycle sends to transcribe is exactly what
\* its own recorder captured: the chunk of recording c and nothing else.
C23_PayloadIsOwnRecording ==
    \A k \in RunIds : runs[k].blob = << runs[k].rec >>

\* C28 (as claimed): at most one recorder is running and at most one
\* microphone stream is live at any time.
C28_OneStreamOneRecorder ==
    /\ Cardinality({c \in 1..Len(recorders) : recorders[c].state = "recording"}) <= 1
    /\ Cardinality({c \in 1..Len(recorders) : recorders[c].tracks = "live"}) <= 1

\* C30 (as claimed): the persona sent to generate, the persona sent to
\* synthesize and the persona labelling the AI turn of one cycle are equal.
C30_OnePersonaPerCycle ==
    \A k \in RunIds :
        (Len(runs[k].sent) = 3 /\ runs[k].gen.character # Undefined)
        => /\ runs[k].gen.character = runs[k].tts.character
           /\ runs[k].gen.character = runs[k].label

\* a run awaits something that will settle: a fetch in flight, the play()
\* promise, or the 'ended' event of a playback in progress
Pending(run) ==
    \/ run.pc \in {"transcribe", "generate", "tts", "play"}
    \/ run.pc = "ended" /\ run.audio = "playing"

\* C24 (as claimed): every cycle terminates: a run that has not returned is
\* waiting for a response or a playback that will settle, and a run that has
\* returned left the ready status or an error status.
C24_CycleTerminates ==
    \A k \in RunIds :
        /\ RunActive(k) => Pending(runs[k])
        /\ ~RunActive(k) => runs[k].final \in {"ready"} \cup ErrorStatuses

\* C27 (as claimed): a recording is active only while the control is held.
C27_RecordingOnlyWhileHeld ==
    isRecording => held

\* the reply configured for a key in mockResponses.responses[c]
ConfiguredReply(c, key) ==
    LET tab == mockResponses[c]
        i == CHOOSE j \in 1..Len(tab) : tab[j][1] = key
    IN << tab[i][2] >>

\* the cycle ran to its end with persona p selected throughout and its
\* playback neither rejected nor broken off
CompletedWith(run, p) ==
    /\ run.pc = "done"
    /\ Len(run.sent) = 3
    /\ run.gen.character = p /\ run.label = p /\ run.tts.character = p
    /\ run.audio \in {"playing", "ended"}

\* C21: in mock mode a client cycle on any recorded audio that completes
\* with one registry persona selected shows the user turn "How are you?",
\* then the AI turn equal to that persona's configured "how are you" reply,
\* the generate response carrying the persona's display name; it receives
\* from synthesize the fixed silent payload with Content-Type audio/mpeg and
\* ends with the success status. This holds for yoda and for every other
\* persona of the registry.
C21_MockEndToEnd ==
    \A k \in RunIds : \A p \in DOMAIN registry :
        CompletedWith(runs[k], p)
        => /\ runs[k].results = <<"ok", "ok", "ok">>
           /\ runs[k].resp[1].text = <<"How are you", "?">>
           /\ runs[k].turns = << [role |-> "user", text |-> <<"How are you", "?">>],
                                 [role |-> "ai", text |-> ConfiguredReply(p, "how are you")] >>
           /\ runs[k].resp[2].response = ConfiguredReply(p, "how are you")
           /\ runs[k].resp[2].character = registry[p].name
           /\ runs[k].resp[3].contentType = "audio/mpeg"
           /\ runs[k].resp[3].bytes = silentMp3
           /\ runs[k].final = "ready"

C21_Witness ==
    /\ build = "v1"
    /\ \E k \in RunIds :
         /\ CompletedWith(runs[k], "yoda")
         /\ runs[k].blob = <<1, 2>>
         /\ runs[k].resp[2].character = "Yoda"
         /\ runs[k].turns[2].text = <<"Well, I am, young one...">>
         /\ runs[k].final = "ready"

\* C31 (as claimed): after a reset the conversation holds no message of a
\* cycle that was processing when resetChat cleared it: such a cycle appends
\* neither its user turn nor its AI turn afterwards.
C31_NoTurnAfterReset ==
    \A i \in 1..Len(conversation) :
        conversation[i].by # 0 => ~runs[conversation[i].by].reset
====
